---- MODULE Spec2Model ----
(***************************************************************************)
(* A model of launch.py (mila-launch): the configuration merging           *)
(* (deep_update), the job-set loader (load_jobs), the script-argument      *)
(* flattener (quote, script_dict_to_script_args_str), the rendering of the *)
(* sbatch template (the key check, str.format, clean_sbatch_params) and    *)
(* the submission driver (the __main__ block).                             *)
(*                                                                         *)
(* Conventions.                                                            *)
(*  - A Python string is a sequence of symbols.  A symbol is one character *)
(*    ("a", " ", "=", "'", ...) or an atom standing for a run of ordinary  *)
(*    characters with no space, '=', quote or parenthesis in it ("None",   *)
(*    "__value__", "user", ...).                                           *)
(*  - A Python value is a tagged record: [t |-> "s", v |-> string],        *)
(*    [t |-> "n", v |-> <<>>] for None, [t |-> "d", v |-> items] for a dict *)
(*    given by value (items: a sequence of <<key, value>> in insertion     *)
(*    order, keys distinct) and [t |-> "r", v |-> id] for a reference to a  *)
(*    dict object of the heap.                                             *)
(*  - The heap is a sequence of dict objects; the id of an object is its   *)
(*    index.  An object is a sequence of <<key, cell>>, a cell being a     *)
(*    scalar value or a reference.  In-place mutation, deepcopy and        *)
(*    dict.copy() act on the heap.                                         *)
(*  - The dicts read from YAML and from the command line are trees: no     *)
(*    object is reachable twice (no YAML anchors/aliases).                 *)
(***************************************************************************)
EXTENDS Integers, Sequences, FiniteSets, TLC

VARIABLES
    pc,        \* position of the running program
    qin,       \* quote: the argument
    qout,      \* quote: the outcome
    fin,       \* script_dict_to_script_args_str: the argument (by value)
    fout,      \* script_dict_to_script_args_str: the outcome
    heap,      \* the dict objects
    mA,        \* deep_update: the argument a (a cell)
    mB,        \* deep_update: the argument b (a cell)
    mVerbose,  \* deep_update: the argument verbose
    mIn,       \* deep_update: the values of a and b at the call
    mOut,      \* deep_update: the outcome
    input,     \* launch.py: launch.conf.yaml, the command line, the jobs file, the template
    env,       \* launch.py: the variables of __main__ (cells and lists of cells)
    job_i,     \* launch.py: i, the index of the job being processed
    err,       \* launch.py: the uncaught exception that ended the run, if any
    log,       \* launch.py: what each job went through, in order
    fx,        \* launch.py: the side effects so far
    rin,       \* rendering: the template and the job configuration
    rout,      \* rendering: the outcome
    cin,       \* clean_sbatch_params: the argument
    cout       \* clean_sbatch_params: the outcome

vars == <<pc, qin, qout, fin, fout, heap, mA, mB, mVerbose, mIn, mOut,
          input, env, job_i, err, log, fx, rin, rout, cin, cout>>

(***************************************************************************)
(* Values and strings                                                      *)
(***************************************************************************)
S(str) == [t |-> "s", v |-> str]
None == [t |-> "n", v |-> <<>>]
Bool(b) == [t |-> "b", v |-> IF b THEN <<"True">> ELSE <<"False">>]
\* a key that a dict does not hold
Absent == [t |-> "absent", v |-> <<>>]
D(items) == [t |-> "d", v |-> items]
R(id) == [t |-> "r", v |-> id]

IsDict(x) == x.t = "d"

\* outcomes of a call that returns a string or raises; msg: the message of the
\* exception where the code builds it from its data
Ok(str) == [err |-> "", s |-> str, msg |-> <<>>]
Raise(e) == [err |-> e, s |-> <<>>, msg |-> <<>>]
RaiseMsg(e, msg) == [err |-> e, s |-> <<>>, msg |-> msg]
NoCall == [err |-> "-", s |-> <<>>, msg |-> <<>>]

\* str(value) of a scalar
Str(value) == IF value.t = "n" THEN <<"None">> ELSE value.v

SeqRange(seq) == {seq[i] : i \in 1..Len(seq)}

Contains(str, c) == \E i \in 1..Len(str) : str[i] = c

\* str.count(c)
Count(str, c) == Cardinality({i \in 1..Len(str) : str[i] = c})

RECURSIVE Replace(_, _, _)
\* str.replace(c, by) for a one-character c
Replace(str, c, by) ==
    IF str = <<>> THEN <<>>
    ELSE (IF Head(str) = c THEN by ELSE <<Head(str)>>) \o Replace(Tail(str), c, by)

RECURSIVE LStrip(_)
LStrip(str) ==
    IF str # <<>> /\ Head(str) = " " THEN LStrip(Tail(str)) ELSE str

RECURSIVE RStrip(_)
RStrip(str) ==
    IF str # <<>> /\ str[Len(str)] = " " THEN RStrip(SubSeq(str, 1, Len(str) - 1)) ELSE str

\* str.strip()
Strip(str) == RStrip(LStrip(str))

(***************************************************************************)
(* quote                                                                   *)
(***************************************************************************)
EscapeParens(v) == Replace(Replace(v, "(", <<"\\", "(">>), ")", <<"\\", ")">>)

NeedsQuotes(v) == Contains(v, " ") \/ Contains(v, "=")

EscapeParensMutant(v) == Replace(v, "(", <<"\\", "(">>)

WrapMutant(v) ==
    IF ~Contains(v, "'") THEN Ok(<<"'">> \o v \o <<"'">>)
    ELSE IF ~Contains(v, "\"") THEN Ok(<<"\"">> \o v \o <<"\"">>)
    ELSE Raise("ValueError")

\* quotes with double quotes whatever the value holds
WrapNoRaise(v) == Ok(<<"\"">> \o v \o <<"\"">>)

\* lines 300-305: the choice of the quote character
Wrap(v) ==
    IF ~Contains(v, "\"") THEN Ok(<<"\"">> \o v \o <<"\"">>)
    ELSE IF ~Contains(v, "'") THEN Ok(<<"'">> \o v \o <<"'">>)
    ELSE Raise("ValueError")

\* line 305: f"Cannot quote {value}"
CannotQuote(value) == <<"Cannot quote ">> \o Str(value)

quote(value) ==
    LET v == EscapeParens(Str(value))
        w == Wrap(v)
    IN IF NeedsQuotes(v)
       THEN (IF w.err # "" THEN RaiseMsg(w.err, CannotQuote(value)) ELSE w)
       ELSE Ok(v)

(***************************************************************************)
(* script_dict_to_script_args_str                                          *)
(***************************************************************************)
\* wraps a token with several '=' whatever it holds
LeafTokenNoAssert(nested_key, q) ==
    LET candidate == nested_key \o <<"=">> \o q
    IN IF Count(candidate, "=") > 1
       THEN Ok(<<"'">> \o candidate \o <<"'">> \o <<" ">>)
       ELSE Ok(candidate \o <<" ">>)

\* lines 319-323: the token of a leaf, with its trailing space
LeafToken(nested_key, q) ==
    LET candidate == nested_key \o <<"=">> \o q
    IN IF Count(candidate, "=") > 1
       THEN IF Contains(candidate, "'") THEN Raise("AssertionError")
            ELSE Ok(<<"'">> \o candidate \o <<"'">> \o <<" ">>)
       ELSE Ok(candidate \o <<" ">>)

SentinelTokenMutant(nested_key, q) == LeafToken(nested_key, q)

\* lines 330-335: the token of a __value__ entry; the space is part of the
\* candidate before it is wrapped
SentinelToken(nested_key, q) ==
    LET candidate == nested_key \o <<"=">> \o q \o <<" ">>
    IN IF Count(candidate, "=") > 1
       THEN IF Contains(candidate, "'") THEN Raise("AssertionError")
            ELSE Ok(<<"'">> \o candidate \o <<"'">>)
       ELSE Ok(candidate)

\* line 338
NewKey(nested_key, k) == IF nested_key = <<>> THEN k ELSE nested_key \o <<".">> \o k

RECURSIVE script_dict_to_script_args_str(_, _, _)
RECURSIVE FlattenItems(_, _, _, _)

\* lines 325-339: the loop over script_dict.items(), from item i on
FlattenItems(items, i, nested_key, new_str) ==
    IF i > Len(items) THEN Ok(new_str)
    ELSE LET k == items[i][1]
             v == items[i][2]
         IN IF k = <<"__value__">>
            THEN LET q == quote(v)
                     tok == IF q.err # "" THEN q ELSE SentinelToken(nested_key, q.s)
                 IN IF tok.err # "" THEN tok
                    ELSE FlattenItems(items, i + 1, nested_key, new_str \o tok.s)
            ELSE LET sub == script_dict_to_script_args_str(v, FALSE, NewKey(nested_key, k))
                 IN IF sub.err # "" THEN sub
                    ELSE FlattenItems(items, i + 1, nested_key, new_str \o sub.s)

script_dict_to_script_args_str(script_dict, is_first, nested_key) ==
    IF ~IsDict(script_dict)
    THEN LET q == quote(script_dict)
         IN IF q.err # "" THEN q ELSE LeafToken(nested_key, q.s)
    ELSE LET r == FlattenItems(script_dict.v, 1, nested_key, <<>>)
         IN IF r.err = "" /\ is_first THEN Ok(Strip(r.s)) ELSE r

(***************************************************************************)
(* The heap: dict objects, references, deepcopy                            *)
(***************************************************************************)
IsRef(c) == c.t = "r"

KeysOf(obj) == {obj[i][1] : i \in 1..Len(obj)}

IndexOf(obj, key) == CHOOSE i \in 1..Len(obj) : obj[i][1] = key

\* obj[key]
GetItem(obj, key) == obj[IndexOf(obj, key)][2]

\* obj[key] = cell: a present key keeps its place, a new key goes last
SetItem(obj, key, cell) ==
    IF key \in KeysOf(obj)
    THEN [obj EXCEPT ![IndexOf(obj, key)] = <<key, cell>>]
    ELSE Append(obj, <<key, cell>>)

\* the heap after heap[id][key] = cell
Assign(h, id, key, cell) == [h EXCEPT ![id] = SetItem(h[id], key, cell)]

RECURSIVE Load(_, _)
RECURSIVE LoadItems(_, _, _, _)
LoadItems(h, items, i, acc) ==
    IF i > Len(items) THEN [h |-> h, items |-> acc]
    ELSE LET one == Load(h, items[i][2])
         IN LoadItems(one.h, items, i + 1, Append(acc, <<items[i][1], one.c>>))

\* a value given by value, built as fresh objects: the heap after, and the cell
Load(h, value) ==
    IF ~IsDict(value) THEN [h |-> h, c |-> value]
    ELSE LET sub == LoadItems(h, value.v, 1, <<>>)
         IN [h |-> Append(sub.h, sub.items), c |-> R(Len(sub.h) + 1)]

RECURSIVE Deref(_, _)
\* the value a cell stands for, at every depth
Deref(h, c) ==
    IF ~IsRef(c) THEN c
    ELSE D([i \in 1..Len(h[c.v]) |-> <<h[c.v][i][1], Deref(h, h[c.v][i][2])>>])

\* copy.deepcopy: fresh objects at every depth (the objects copied here are
\* trees, so the memo of deepcopy plays no role)
deepcopy(h, c) == Load(h, Deref(h, c))

\* dict.copy(): one fresh object holding the same cells
ShallowCopy(h, c) == [h |-> Append(h, h[c.v]), c |-> R(Len(h) + 1)]

(***************************************************************************)
(* deep_update                                                             *)
(***************************************************************************)
PathNone == [isNone |-> TRUE, p |-> <<>>]
Path(p) == [isNone |-> FALSE, p |-> p]

\* ".".join(path)
RECURSIVE Dotted(_)
Dotted(p) ==
    IF p = <<>> THEN <<>>
    ELSE IF Len(p) = 1 THEN p[1]
    ELSE p[1] \o <<".">> \o Dotted(Tail(p))

DuOk(h, r, out) == [err |-> "", h |-> h, r |-> r, out |-> out]
DuRaise(e, h) == [err |-> e, h |-> h, r |-> None, out |-> <<>>]
DuNoCall == [err |-> "-", h |-> <<>>, r |-> None, out |-> <<>>]

TopCopyMutant(h, a, path) == [h |-> h, c |-> a]

\* lines 356-358: the base is copied when path is None, i.e. at the top call
TopCopy(h, a, path) ==
    IF path.isNone /\ IsRef(a) THEN deepcopy(h, a) ELSE [h |-> h, c |-> a]

BothDictsMutant(av, bv) == IsRef(bv)

\* line 361
BothDicts(av, bv) == IsRef(av) /\ IsRef(bv)

SameLeafMutant(av, bv) == ~IsRef(av) /\ ~IsRef(bv)

\* line 363: a[key] == b[key], one of the two values being no dict
SameLeaf(av, bv) == av.t = bv.t /\ av.v = bv.v

RecVerboseMutant(verbose) == verbose

\* line 362: the recursive call passes no verbose, which is then None
RecVerbose(verbose) == FALSE

RECURSIVE deep_update(_, _, _, _, _)
RECURSIVE UpdateKeys(_, _, _, _, _, _, _)

\* lines 359-370: the loop over the keys of b, from the i-th key on
UpdateKeys(h, a, b, i, path, verbose, out) ==
    IF i > Len(h[b.v]) THEN DuOk(h, a, out)
    ELSE IF ~IsRef(a) THEN DuRaise("TypeError", h)
    ELSE LET key == h[b.v][i][1]
             bv == h[b.v][i][2]
         IN IF key \in KeysOf(h[a.v])
            THEN LET av == GetItem(h[a.v], key)
                 IN IF BothDicts(av, bv)
                    THEN LET sub == deep_update(h, av, bv, Path(Append(path, key)),
                                                RecVerbose(verbose))
                         IN IF sub.err # "" THEN sub
                            ELSE UpdateKeys(sub.h, a, b, i + 1, path, verbose,
                                            out \o sub.out)
                    ELSE IF SameLeaf(av, bv)
                    THEN UpdateKeys(h, a, b, i + 1, path, verbose, out)
                    ELSE UpdateKeys(Assign(h, a.v, key, bv), a, b, i + 1, path, verbose,
                                    IF verbose THEN Append(out, Dotted(Append(path, key)))
                                    ELSE out)
            ELSE UpdateKeys(Assign(h, a.v, key, bv), a, b, i + 1, path, verbose, out)

\* the outcome: the heap after, the returned cell, the warnings printed
deep_update(h, a, b, path, verbose) ==
    LET cp == TopCopy(h, a, path)
    IN IF ~IsRef(b) THEN DuRaise("TypeError", cp.h)
       ELSE UpdateKeys(cp.h, cp.c, b, 1, IF path.isNone THEN <<>> ELSE path.p,
                       verbose, <<>>)

(***************************************************************************)
(* load_jobs                                                               *)
(***************************************************************************)
K(name) == <<name>>

\* d.get(key, {}): the {} is a fresh object; None has no get
DictGet(h, c, key) ==
    IF ~IsRef(c) THEN [err |-> "AttributeError", h |-> h, c |-> None]
    ELSE IF key \in KeysOf(h[c.v]) THEN [err |-> "", h |-> h, c |-> GetItem(h[c.v], key)]
    ELSE [err |-> "", h |-> Append(h, <<>>), c |-> R(Len(h) + 1)]

\* the heap after del heap[id][key]
Remove(h, id, key) ==
    [h EXCEPT ![id] = SelectSeq(h[id], LAMBDA item : item[1] # key)]

RECURSIVE LoadList(_, _, _, _)
\* the entries of a YAML list, built as fresh objects in list order
LoadList(h, values, k, acc) ==
    IF k > Len(values) THEN [h |-> h, cells |-> acc]
    ELSE LET one == Load(h, values[k])
         IN LoadList(one.h, values, k + 1, Append(acc, one.c))

\* lines 240-241: safe_load; shared is Absent when the document has no such key
SafeLoad(h, yaml) ==
    LET sh == IF yaml.shared.t = "absent" THEN [h |-> h, c |-> Absent]
              ELSE Load(h, yaml.shared)
        js == LoadList(sh.h, yaml.jobs, 1, <<>>)
    IN [h |-> js.h, shared |-> sh.c, jobs |-> js.cells]

\* lines 243-244: jobs_config.get("shared", {}).get(key, {})
SharedGet(h, shared, key) ==
    IF shared.t = "absent" THEN DictGet(Append(h, <<>>), R(Len(h) + 1), key)
    ELSE DictGet(h, shared, key)

LjOk(h, jobs, shared_slurm, shared_script) ==
    [err |-> "", h |-> h, jobs |-> jobs,
     shared_slurm |-> shared_slurm, shared_script |-> shared_script]
LjRaise(e, h) ==
    [err |-> e, h |-> h, jobs |-> <<>>, shared_slurm |-> None, shared_script |-> None]

ListAppendMutant(jobs, job_dict) == <<job_dict>> \o jobs

\* line 251
ListAppend(jobs, job_dict) == Append(jobs, job_dict)

\* lines 247, 248: deep_update(shared_map, job_dict.get(key, {}))
MergeEntry(h, shared_map, job_dict, key) ==
    LET g == DictGet(h, job_dict, key)
    IN IF g.err # "" THEN DuRaise(g.err, g.h)
       ELSE deep_update(g.h, shared_map, g.c, PathNone, FALSE)

RECURSIVE LoadJobsLoop(_, _, _, _, _, _)
\* lines 246-251: the loop over jobs_config["jobs"], from the k-th entry on
LoadJobsLoop(h, shared_slurm, shared_script, entries, k, jobs) ==
    IF k > Len(entries) THEN LjOk(h, jobs, shared_slurm, shared_script)
    ELSE LET job_dict == entries[k]
             job_slurm == MergeEntry(h, shared_slurm, job_dict, K("slurm"))
             job_script == MergeEntry(job_slurm.h, shared_script, job_dict, K("script"))
         IN IF job_slurm.err # "" THEN LjRaise(job_slurm.err, job_slurm.h)
            ELSE IF job_script.err # "" THEN LjRaise(job_script.err, job_script.h)
            ELSE LoadJobsLoop(
                   Assign(Assign(job_script.h, job_dict.v, K("slurm"), job_slurm.r),
                          job_dict.v, K("script"), job_script.r),
                   shared_slurm, shared_script, entries, k + 1,
                   ListAppend(jobs, job_dict))

\* load_jobs on the document just read: the heap after, the list returned
LoadJobsFrom(doc) ==
    LET s1 == SharedGet(doc.h, doc.shared, K("slurm"))
        s2 == SharedGet(s1.h, doc.shared, K("script"))
    IN IF s1.err # "" THEN LjRaise(s1.err, s1.h)
       ELSE IF s2.err # "" THEN LjRaise(s2.err, s2.h)
       ELSE LoadJobsLoop(s2.h, s1.c, s2.c, doc.jobs, 1, <<>>)

\* yaml_path is None when no jobs file is given
load_jobs(h, hasFile, yaml) ==
    IF ~hasFile THEN LjOk(h, <<>>, None, None) ELSE LoadJobsFrom(SafeLoad(h, yaml))

(***************************************************************************)
(* The loop body of __main__                                               *)
(***************************************************************************)
\* truth value of a cell
Truthy(h, c) ==
    IF c.t = "b" THEN c.v = <<"True">>
    ELSE IF c.t = "s" THEN c.v # <<>>
    ELSE IF c.t = "r" THEN h[c.v] # <<>>
    ELSE FALSE

\* job_dict.pop("slurm", {})
PopSlurm(h, job_dict) ==
    IF K("slurm") \in KeysOf(h[job_dict.v])
    THEN [h |-> Remove(h, job_dict.v, K("slurm")), c |-> GetItem(h[job_dict.v], K("slurm"))]
    ELSE [h |-> Append(h, <<>>), c |-> R(Len(h) + 1)]

CliLastMutant(h, job_conf, args) == DuOk(h, job_conf, <<>>)

\* line 866
CliLast(h, job_conf, args) == deep_update(h, job_conf, args, PathNone, FALSE)

\* lines 863-866: the layered configuration of one job
Layer(h, conf, job_dict, args) ==
    LET cp == ShallowCopy(h, conf)
        slurm == PopSlurm(cp.h, job_dict)
        d1 == deep_update(slurm.h, cp.c, slurm.c, PathNone, FALSE)
        d2 == deep_update(d1.h, d1.r, job_dict, PathNone, FALSE)
    IN IF d1.err # "" THEN d1
       ELSE IF d2.err # "" THEN d2
       ELSE CliLast(d2.h, d2.r, args)

\* str(resolve(path)): an absolute path
Resolve(c) == IF c.t = "n" THEN S(<<"None">>) ELSE S(<<"/abs/">> \o c.v)

\* lines 875-880: job_conf["script_args"]
ScriptArgs(h, job_conf, cli_script_args) ==
    LET g == DictGet(h, job_conf, K("script"))
        flat == script_dict_to_script_args_str(Deref(g.h, g.c), TRUE, <<>>)
    IN IF flat.err # "" THEN flat
       ELSE Ok(flat.s \o (IF flat.s # <<>> /\ cli_script_args # <<>> THEN <<" ">> ELSE <<>>)
                      \o cli_script_args)

\* lines 868-874: the three paths of the job made absolute
ResolvePaths(h, job_conf) ==
    LET code_dir == GetItem(h[job_conf.v], K("code_dir"))
        h1 == Assign(h, job_conf.v, K("code_dir"),
                     IF Contains(code_dir.v, "SLURM_TMPDIR")
                     THEN S(<<"$SLURM_TMPDIR", "\n", "git clone">>)
                     ELSE Resolve(code_dir))
        h2 == Assign(h1, job_conf.v, K("outdir"), Resolve(GetItem(h1[job_conf.v], K("outdir"))))
    IN Assign(h2, job_conf.v, K("venv"), Resolve(GetItem(h2[job_conf.v], K("venv"))))

\* str(v) of a cell; the text of a dict is one symbol
StrCell(c) == IF IsRef(c) THEN <<"{...}">> ELSE Str(c)

\* lines 883-885: the entries of job_conf the template names, as strings
TemplateValues(h, job_conf, template_known_keys) ==
    LET obj == h[job_conf.v]
    IN [k \in KeysOf(obj) \cap template_known_keys |-> StrCell(GetItem(obj, k))]

(***************************************************************************)
(* The sbatch template: a text whose symbols are "{", "}", the newline,     *)
(* "=", " ", the runs of word characters of WordSyms and other symbols,     *)
(* each holding a character that is not a word character                   *)
(***************************************************************************)
WordSyms == {"x", "y", "job_name", "mem", "script_args", "conda_env"}

IsWord(sym) == sym \in WordSyms

RECURSIVE WordRunEnd(_, _)
\* the first index from j on that does not hold a word symbol
WordRunEnd(text, j) ==
    IF j <= Len(text) /\ IsWord(text[j]) THEN WordRunEnd(text, j + 1) ELSE j

RECURSIVE FindKeys(_, _)
\* re.findall(r"{(\w+)}", text) from index i on: leftmost matches, none
\* overlapping
FindKeys(text, i) ==
    IF i > Len(text) THEN {}
    ELSE LET j == WordRunEnd(text, i + 1)
         IN IF text[i] = "{" /\ j > i + 1 /\ j <= Len(text) /\ text[j] = "}"
            THEN {SubSeq(text, i + 1, j - 1)} \cup FindKeys(text, j + 1)
            ELSE FindKeys(text, i + 1)

\* line 827
TemplateKnownKeys(template) == FindKeys(template, 1)

RECURSIVE FieldEnd(_, _, _)
\* str.format: the index of the brace that closes a replacement field, braces
\* inside it counted; 0 when the text ends first
FieldEnd(text, j, depth) ==
    IF j > Len(text) THEN 0
    ELSE IF text[j] = "{" THEN FieldEnd(text, j + 1, depth + 1)
    ELSE IF text[j] = "}"
         THEN (IF depth = 1 THEN j ELSE FieldEnd(text, j + 1, depth - 1))
    ELSE FieldEnd(text, j + 1, depth)

RECURSIVE FormatFrom(_, _, _, _)
\* str.format(**values) from index i on: {{ and }} are literal braces, a
\* single } or an unclosed { is a ValueError, as is a { in a field name; an
\* empty field is positional (IndexError: there is no positional argument), a
\* field names a keyword argument (KeyError when values lacks it)
FormatFrom(text, i, values, acc) ==
    IF i > Len(text) THEN Ok(acc)
    ELSE IF text[i] = "{"
    THEN IF i = Len(text) THEN Raise("ValueError")
         ELSE IF text[i + 1] = "{" THEN FormatFrom(text, i + 2, values, acc \o <<"{">>)
         ELSE LET j == FieldEnd(text, i + 1, 1)
                  field == SubSeq(text, i + 1, j - 1)
              IN IF j = 0 THEN Raise("ValueError")
                 ELSE IF Contains(field, "{") THEN Raise("ValueError")
                 ELSE IF field = <<>> THEN Raise("IndexError")
                 ELSE IF field \notin DOMAIN values THEN Raise("KeyError")
                 ELSE FormatFrom(text, j + 1, values, acc \o values[field])
    ELSE IF text[i] = "}"
    THEN IF i < Len(text) /\ text[i + 1] = "}"
         THEN FormatFrom(text, i + 2, values, acc \o <<"}">>)
         ELSE Raise("ValueError")
    ELSE FormatFrom(text, i + 1, values, acc \o <<text[i]>>)

\* line 895: template.format(**template_values)
Format(template, template_values) == FormatFrom(template, 1, template_values, <<>>)

RECURSIVE SplitOn(_, _)
\* str.split(sep): the pieces between the separators
SplitOn(str, sep) ==
    IF ~Contains(str, sep) THEN <<str>>
    ELSE LET i == CHOOSE k \in 1..Len(str) :
                     str[k] = sep /\ \A m \in 1..(k - 1) : str[m] # sep
         IN <<SubSeq(str, 1, i - 1)>> \o SplitOn(SubSeq(str, i + 1, Len(str)), sep)

\* str.splitlines(): the lines, none for a last line that is empty
SplitLines(str) ==
    LET pieces == SplitOn(str, "\n")
    IN IF pieces[Len(pieces)] = <<>> THEN SubSeq(pieces, 1, Len(pieces) - 1) ELSE pieces

RECURSIVE JoinLines(_)
\* "\n".join(lines)
JoinLines(lines) ==
    IF lines = <<>> THEN <<>>
    ELSE IF Len(lines) = 1 THEN lines[1]
    ELSE lines[1] \o <<"\n">> \o JoinLines(Tail(lines))

\* lines 796-803: the line goes to new_lines
KeepLine(line) ==
    IF ~(line # <<>> /\ line[1] = "#SBATCH") THEN TRUE
    ELSE IF ~Contains(line, "=") THEN TRUE
    ELSE Strip(SplitOn(line, "=")[2]) # <<>>

RECURSIVE KeptLines(_)
KeptLines(lines) ==
    IF lines = <<>> THEN <<>>
    ELSE (IF KeepLine(lines[1]) THEN <<lines[1]>> ELSE <<>>) \o KeptLines(Tail(lines))

\* lines 784-804
clean_sbatch_params(templated) == JoinLines(KeptLines(SplitLines(templated)))

\* line 887
KeysChecked(template_known_keys, template_values) ==
    template_known_keys = DOMAIN template_values

\* lines 883-896: the sbatch text of a job; formatted: the text before the
\* empty directives are removed
Render(h, job_conf, template, template_known_keys) ==
    LET template_values == TemplateValues(h, job_conf, template_known_keys)
        formatted == Format(template, template_values)
    IN IF ~KeysChecked(template_known_keys, template_values)
       THEN [err |-> "ValueError", formatted |-> <<>>, templated |-> <<>>]
       ELSE IF formatted.err # ""
       THEN [err |-> formatted.err, formatted |-> <<>>, templated |-> <<>>]
       ELSE [err |-> "", formatted |-> formatted.s,
             templated |-> clean_sbatch_params(formatted.s)]

NoRender == [err |-> "-", formatted |-> <<>>, templated |-> <<>>]

(***************************************************************************)
(* Inputs                                                                  *)
(***************************************************************************)
MaxStrLen == 3

QuoteChars == {"a", " ", "=", "\"", "'", "(", ")"}

RECURSIVE StringsUpTo(_, _)
StringsUpTo(chars, n) ==
    IF n = 0 THEN {<<>>}
    ELSE LET shorter == StringsUpTo(chars, n - 1)
         IN shorter \cup {Append(s, c) : s \in {x \in shorter : Len(x) = n - 1}, c \in chars}

QuoteInputs == {S(s) : s \in StringsUpTo(QuoteChars, MaxStrLen)} \cup {None}

\* dict items of total size n (entries counted at every depth) over the keys
\* keySeq[i], i \in idx; ordered: any insertion order, else ascending keys only;
\* a __value__ entry holds a scalar
RECURSIVE DictItems(_, _, _, _, _)
DictItems(n, idx, keySeq, scalars, ordered) ==
    IF n = 0 THEN {<<>>}
    ELSE UNION {
           UNION {
             LET vals == IF m = 0
                         THEN scalars \cup
                              (IF keySeq[i] = <<"__value__">> THEN {} ELSE {D(<<>>)})
                         ELSE IF keySeq[i] = <<"__value__">> THEN {}
                         ELSE {D(it) : it \in DictItems(m, DOMAIN keySeq, keySeq,
                                                        scalars, ordered)}
                 later == IF ordered THEN idx \ {i} ELSE {j \in idx : j > i}
             IN {<<<<keySeq[i], v>>>> \o rest :
                    v \in vals,
                    rest \in DictItems(n - 1 - m, later, keySeq, scalars, ordered)}
             : m \in 0..(n - 1)}
           : i \in idx}

\* the dicts of total size at most n
DictsUpTo(n, keySeq, scalars, ordered) ==
    UNION {{D(it) : it \in DictItems(k, DOMAIN keySeq, keySeq, scalars, ordered)}
           : k \in 0..n}

MaxScriptSize == 3

ScriptKeys == << <<"a">>, <<"b">>, <<"__value__">> >>

ScriptVals ==
    { S(<<"x">>), S(<<"a", " ", "b">>), S(<<"a", "=", "b">>), S(<<"'">>),
      S(<<"=", "'">>), S(<<"\"", " ">>), S(<<" ", "\"", "'">>), None }

\* d is a dict of total size at most MaxScriptSize: the empty one, or a first
\* item and the items after it
IsScriptInput(d) ==
    \/ d = D(<<>>)
    \/ \E k \in 1..MaxScriptSize, i \in DOMAIN ScriptKeys :
          \E m \in 0..(k - 1) :
             \E v \in IF m = 0
                      THEN ScriptVals \cup
                           (IF ScriptKeys[i] = <<"__value__">> THEN {} ELSE {D(<<>>)})
                      ELSE IF ScriptKeys[i] = <<"__value__">> THEN {}
                      ELSE {D(it) : it \in DictItems(m, DOMAIN ScriptKeys, ScriptKeys,
                                                     ScriptVals, TRUE)},
                rest \in DictItems(k - 1 - m, DOMAIN ScriptKeys \ {i}, ScriptKeys,
                                   ScriptVals, TRUE) :
                d = D(<<<<ScriptKeys[i], v>>>> \o rest)

MaxMergeSize == 3

MergeKeys == << <<"k1">>, <<"k2">> >>

MergeVals == {S(<<"x">>), S(<<"y">>)}

\* Python's == does not look at the order of the keys, so one order stands for
\* all
MergeInputs == DictsUpTo(MaxMergeSize, MergeKeys, MergeVals, FALSE)

MaxJobs == 2

Item(name, value) == <<K(name), value>>

\* launch.conf.yaml
LaunchDefaults ==
    D(<< Item("job_name", S(<<"job">>)), Item("outdir", S(<<"out">>)),
         Item("code_dir", S(<<"code">>)), Item("venv", S(<<"venv">>)),
         Item("mem", S(<<"16G">>)), Item("dry_run", Bool(FALSE)),
         Item("force", Bool(FALSE)), Item("verbose", Bool(FALSE)),
         Item("jobs", None) >>)

\* command lines: the known flags given, and the other arguments joined
CommandLines ==
    { [args |-> D(<< Item("mem", S(<<"64G">>)) >>), cli_script_args |-> <<"seed", "=", "1">>],
      [args |-> D(<< Item("dry_run", Bool(TRUE)), Item("mem", S(<<"64G">>)) >>),
       cli_script_args |-> <<"seed", "=", "1">>],
      [args |-> D(<< Item("force", Bool(TRUE)) >>), cli_script_args |-> <<>>] }

\* the shared section of a jobs file
SharedSections ==
    { Absent, None,
      D(<< Item("slurm", D(<< Item("mem", S(<<"16G">>)) >>)),
           Item("script", D(<< Item("user", S(<<"alice">>)),
                               Item("opt", D(<< Item("lr", S(<<"x">>)) >>)) >>)) >>),
      D(<< Item("script", D(<< Item("user", S(<<"alice">>)) >>)) >>),
      D(<< Item("slurm", None), Item("script", D(<< Item("user", S(<<"alice">>)) >>)) >>) }

SlurmFields == { <<>>, <<Item("slurm", None)>>,
                 <<Item("slurm", D(<< Item("mem", S(<<"32G">>)) >>))>> }

ScriptFields == { <<>>, <<Item("script", D(<< Item("user", S(<<"bob">>)) >>))>>,
                  <<Item("script", D(<< Item("opt", D(<< Item("lr", S(<<"y">>)) >>)) >>))>> }

OtherFields == { <<>>, <<Item("mem", S(<<"8G">>))>> }

\* the entries of the jobs list
JobEntries ==
    {D(sl \o sc) : sl \in SlurmFields \ {<<Item("slurm", None)>>}, sc \in ScriptFields}
    \cup {D(<<Item("slurm", None)>>)}
    \cup {D(sl \o ot) : sl \in SlurmFields \ {<<Item("slurm", None)>>},
                        ot \in OtherFields \ {<<>>}}

RECURSIVE ListsUpTo(_, _)
ListsUpTo(set, n) ==
    IF n = 0 THEN {<<>>}
    ELSE LET shorter == ListsUpTo(set, n - 1)
         IN shorter \cup {Append(l, e) : l \in {x \in shorter : Len(x) = n - 1}, e \in set}

JobsFiles == {[shared |-> sh, jobs |-> js] : sh \in SharedSections,
                                             js \in ListsUpTo(JobEntries, MaxJobs)}

NoJobsFile == [shared |-> Absent, jobs |-> <<>>]

\* a template whose placeholders launch.conf.yaml covers
TemplateVenv ==
    << "#SBATCH", " ", "--job-name", "=", "{", "job_name", "}", "\n",
       "#SBATCH", " ", "--mem", "=", "{", "mem", "}", "\n",
       "python main.py ", "{", "script_args", "}", "\n" >>

\* sbatch templates: the second names a key no configuration of the model holds
Templates == { TemplateVenv,
               TemplateVenv \o <<"conda activate ", "{", "conda_env", "}", "\n">> }

MaxTemplateLen == 4

TemplateChars == {"{", "}", "x", "y", " "}

\* job configurations: x and y absent or present, z always present
RenderConfs ==
    {D(x \o y \o <<Item("z", S(<<"3">>))>>) :
        x \in {<<>>, <<Item("x", S(<<"1">>))>>, <<Item("x", None)>>},
        y \in {<<>>, <<Item("y", S(<<"2">>))>>}}

MaxTextLen == 5

CleanChars == {"#SBATCH", "=", " ", "\n", "a"}

\* at most one symbol more
OneMore(chars) == {<<>>} \cup {<<c>> : c \in chars}

(***************************************************************************)
(* Specification of quote alone                                            *)
(***************************************************************************)
QuoteIdle == qin = None /\ qout = NoCall
RenderIdle == rin = [template |-> <<>>, job_conf |-> D(<<>>)] /\ rout = NoRender
CleanIdle == cin = <<>> /\ cout = <<>>
renderVars == <<rin, rout, cin, cout>>
FlattenIdle == fin = D(<<>>) /\ fout = NoCall
MergeIdle ==
    /\ heap = <<>>
    /\ mA = None
    /\ mB = None
    /\ mVerbose = FALSE
    /\ mIn = <<None, None>>
    /\ mOut = DuNoCall
mergeVars == <<heap, mA, mB, mVerbose, mIn, mOut>>
driverVars == <<input, env, job_i, err, log, fx>>
NoEnv ==
    [launch_defaults |-> None, args |-> None, conf |-> None, template |-> <<>>,
     template_known_keys |-> {}, job_dicts |-> <<>>, shared_slurm |-> None, shared_script |-> None,
     job_conf |-> None, templated |-> <<>>, sbatch_path |-> <<>>,
     job_ids |-> <<>>, job_out_files |-> <<>>]
NoErr == [at |-> "", e |-> ""]
NoLog == [loaded |-> <<>>, layered |-> <<>>, script_args |-> <<>>, sbatch |-> <<>>]
NoFx == [dirs |-> 0, written |-> <<>>, submitted |-> <<>>, prompts |-> <<>>,
         summary |-> FALSE]
DriverIdle ==
    /\ input = [args |-> D(<<>>), cli_script_args |-> <<>>, hasFile |-> FALSE,
                yaml |-> NoJobsFile]
    /\ env = NoEnv
    /\ job_i = 0
    /\ err = NoErr
    /\ log = NoLog
    /\ fx = NoFx

InitQuote ==
    /\ pc = "start"
    /\ qin \in QuoteInputs
    /\ qout = NoCall
    /\ FlattenIdle
    /\ MergeIdle
    /\ DriverIdle
    /\ RenderIdle
    /\ CleanIdle

CallQuote ==
    /\ pc = "start"
    /\ qout' = quote(qin)
    /\ pc' = "done"
    /\ UNCHANGED <<qin, fin, fout, mergeVars, driverVars, renderVars>>

NextQuote == CallQuote

SpecQuote == InitQuote /\ [][NextQuote]_vars

(***************************************************************************)
(* Specification of script_dict_to_script_args_str alone                   *)
(***************************************************************************)
InitFlatten ==
    /\ pc = "start"
    /\ IsScriptInput(fin)
    /\ fout = NoCall
    /\ QuoteIdle
    /\ MergeIdle
    /\ DriverIdle
    /\ RenderIdle
    /\ CleanIdle

CallFlatten ==
    /\ pc = "start"
    /\ fout' = script_dict_to_script_args_str(fin, TRUE, <<>>)
    /\ pc' = "done"
    /\ UNCHANGED <<fin, qin, qout, mergeVars, driverVars, renderVars>>

NextFlatten == CallFlatten

SpecFlatten == InitFlatten /\ [][NextFlatten]_vars

(***************************************************************************)
(* Specification of deep_update alone                                      *)
(***************************************************************************)
InitMerge ==
    /\ pc = "start"
    /\ \E A \in MergeInputs, B \in MergeInputs :
          LET la == Load(<<>>, A)
              lb == Load(la.h, B)
          IN /\ heap = lb.h
             /\ mA = la.c
             /\ mB = lb.c
             /\ mIn = <<A, B>>
    /\ mVerbose \in BOOLEAN
    /\ mOut = DuNoCall
    /\ QuoteIdle
    /\ FlattenIdle
    /\ DriverIdle
    /\ RenderIdle
    /\ CleanIdle

CallDeepUpdate ==
    /\ pc = "start"
    /\ mOut' = deep_update(heap, mA, mB, PathNone, mVerbose)
    /\ heap' = mOut'.h
    /\ pc' = "done"
    /\ UNCHANGED <<mA, mB, mVerbose, mIn, qin, qout, fin, fout, driverVars, renderVars>>

NextMerge == CallDeepUpdate

SpecMerge == InitMerge /\ [][NextMerge]_vars

(***************************************************************************)
(* Specification of the rendering of a template alone                      *)
(***************************************************************************)
InitRender ==
    /\ pc = "start"
    /\ \E job_conf \in RenderConfs,
          s \in StringsUpTo(TemplateChars, MaxTemplateLen - 1), c \in OneMore(TemplateChars) :
          rin = [template |-> s \o c, job_conf |-> job_conf]
    /\ rout = NoRender
    /\ QuoteIdle
    /\ FlattenIdle
    /\ MergeIdle
    /\ DriverIdle
    /\ CleanIdle

CallRender ==
    /\ pc = "start"
    /\ LET ld == Load(heap, rin.job_conf)
       IN /\ rout' = Render(ld.h, ld.c, rin.template, TemplateKnownKeys(rin.template))
          /\ heap' = ld.h
    /\ pc' = "done"
    /\ UNCHANGED <<rin, cin, cout, qin, qout, fin, fout, mA, mB, mVerbose, mIn, mOut,
                   driverVars>>

NextRender == CallRender

SpecRender == InitRender /\ [][NextRender]_vars

(***************************************************************************)
(* Specification of clean_sbatch_params alone                              *)
(***************************************************************************)
InitClean ==
    /\ pc = "start"
    /\ \E s \in StringsUpTo(CleanChars, MaxTextLen - 1), c \in OneMore(CleanChars) :
          cin = s \o c
    /\ cout = <<>>
    /\ rin = [template |-> <<>>, job_conf |-> D(<<>>)]
    /\ rout = NoRender
    /\ QuoteIdle
    /\ FlattenIdle
    /\ MergeIdle
    /\ DriverIdle

CallClean ==
    /\ pc = "start"
    /\ cout' = clean_sbatch_params(cin)
    /\ pc' = "done"
    /\ UNCHANGED <<cin, rin, rout, qin, qout, fin, fout, mergeVars, driverVars>>

NextClean == CallClean

SpecClean == InitClean /\ [][NextClean]_vars

(***************************************************************************)
(* Specification of a run of launch.py                                     *)
(***************************************************************************)
\* conf[name]
Conf(name) == GetItem(heap[env.conf.v], K(name))

DryRun == Truthy(heap, Conf("dry_run"))
Force == Truthy(heap, Conf("force"))

\* find_jobs_conf: jobs_conf_path is not None
HasJobsFile == Truthy(heap, Conf("jobs"))

\* an uncaught exception ends the run; at: the step that raised it
Crash(e) ==
    /\ pc' = "crashed"
    /\ err' = [at |-> pc, e |-> e]

Init ==
    /\ pc = "main"
    /\ \E cmd \in CommandLines, file \in {NoJobsFile} \cup JobsFiles, given \in BOOLEAN :
          /\ (given = FALSE) => (file = NoJobsFile)
          /\ input = [args |-> IF given
                               THEN D(cmd.args.v \o <<Item("jobs", S(<<"exp">>))>>)
                               ELSE cmd.args,
                      cli_script_args |-> cmd.cli_script_args,
                      hasFile |-> given,
                      yaml |-> file]
    /\ LET ld == Load(<<>>, LaunchDefaults)
           la == Load(ld.h, input.args)
       IN /\ heap = la.h
          /\ env = [NoEnv EXCEPT !.launch_defaults = ld.c, !.args = la.c]
    /\ job_i = 0
    /\ err = NoErr
    /\ log = NoLog
    /\ fx = NoFx
    /\ QuoteIdle
    /\ FlattenIdle
    /\ RenderIdle
    /\ CleanIdle
    /\ mA = None /\ mB = None /\ mVerbose = FALSE /\ mIn = <<None, None>> /\ mOut = DuNoCall

otherVars == <<qin, qout, fin, fout, mA, mB, mVerbose, mIn, mOut, rin, rout, cin, cout>>

\* lines 808-841: the launch configuration, the template, the output directory
Configure ==
    /\ pc = "main"
    /\ \E template \in Templates :
          LET d == deep_update(heap, env.launch_defaults, env.args, PathNone, FALSE)
              dry_run == Truthy(d.h, GetItem(d.h[d.r.v], K("dry_run")))
          IN /\ heap' = d.h
             /\ env' = [env EXCEPT !.conf = d.r, !.template = template,
                                   !.template_known_keys = TemplateKnownKeys(template)]
             /\ fx' = [fx EXCEPT !.dirs = IF dry_run THEN @ ELSE @ + 1]
    /\ pc' = "load"
    /\ UNCHANGED <<input, job_i, err, log, otherVars>>

\* lines 843-854: the job descriptors; one empty job when there is none
LoadJobs ==
    /\ pc = "load"
    /\ LET r == load_jobs(heap, HasJobsFile, input.yaml)
       IN IF r.err # ""
          THEN /\ Crash(r.err)
               /\ heap' = r.h
               /\ UNCHANGED <<env, log>>
          ELSE /\ pc' = "confirm"
               /\ heap' = IF r.jobs = <<>> THEN Append(r.h, <<>>) ELSE r.h
               /\ env' = [env EXCEPT
                            !.job_dicts = IF r.jobs = <<>> THEN <<R(Len(r.h) + 1)>>
                                          ELSE r.jobs,
                            !.shared_slurm = r.shared_slurm,
                            !.shared_script = r.shared_script]
               /\ log' = [log EXCEPT
                            !.loaded = [k \in 1..Len(r.jobs) |-> Deref(r.h, r.jobs[k])]]
               /\ UNCHANGED err
    /\ UNCHANGED <<input, job_i, fx, otherVars>>

\* str.lower()
Lower(str) ==
    [k \in 1..Len(str) |-> IF str[k] = "Y" THEN "y" ELSE IF str[k] = "N" THEN "n" ELSE str[k]]

\* what the user may type at the prompt
Answers == {<<"y">>, <<"n">>, <<>>, <<"n", "a", "Y">>}

\* goes on whatever the answer
AnswerPromptMutant(answer) ==
    /\ pc = "confirm"
    /\ ~Force /\ ~DryRun
    /\ fx' = [fx EXCEPT !.prompts = Append(@, answer)]
    /\ pc' = "loop"
    /\ UNCHANGED <<input, heap, env, job_i, err, log, otherVars>>

\* lines 856-860: the confirmation; prompts: the answers given
AnswerPrompt(answer) ==
    /\ pc = "confirm"
    /\ ~Force /\ ~DryRun
    /\ fx' = [fx EXCEPT !.prompts = Append(@, answer)]
    /\ pc' = IF Contains(Lower(answer), "y") THEN "loop" ELSE "aborted"
    /\ UNCHANGED <<input, heap, env, job_i, err, log, otherVars>>

\* line 856: no confirmation in force or dry-run mode
SkipPrompt ==
    /\ pc = "confirm"
    /\ Force \/ DryRun
    /\ pc' = "loop"
    /\ UNCHANGED <<input, heap, env, job_i, err, log, fx, otherVars>>

\* lines 862-866
LayerJob ==
    /\ pc = "loop"
    /\ job_i < Len(env.job_dicts)
    /\ LET d == Layer(heap, env.conf, env.job_dicts[job_i + 1], env.args)
       IN IF d.err # ""
          THEN /\ Crash(d.err)
               /\ heap' = d.h
               /\ UNCHANGED <<env, log>>
          ELSE /\ pc' = "prepare"
               /\ heap' = d.h
               /\ env' = [env EXCEPT !.job_conf = d.r]
               /\ log' = [log EXCEPT !.layered = Append(@, Deref(d.h, d.r))]
               /\ UNCHANGED err
    /\ UNCHANGED <<input, job_i, fx, otherVars>>

\* lines 868-880
PrepareJob ==
    /\ pc = "prepare"
    /\ LET h1 == ResolvePaths(heap, env.job_conf)
           sa == ScriptArgs(h1, env.job_conf, input.cli_script_args)
       IN IF sa.err # ""
          THEN /\ Crash(sa.err)
               /\ heap' = h1
               /\ UNCHANGED log
          ELSE /\ pc' = "render"
               /\ heap' = Assign(h1, env.job_conf.v, K("script_args"), S(sa.s))
               /\ log' = [log EXCEPT !.script_args = Append(@, sa.s)]
               /\ UNCHANGED err
    /\ UNCHANGED <<input, env, job_i, fx, otherVars>>

\* lines 899-902
SbatchPath ==
    IF HasJobsFile THEN <<"exp", "_", "now", "_", ToString(job_i), ".sbatch">>
    ELSE GetItem(heap[env.job_conf.v], K("job_name")).v \o <<"_", "now", ".sbatch">>

\* lines 882-902
RenderJob ==
    /\ pc = "render"
    /\ LET r == Render(heap, env.job_conf, env.template, env.template_known_keys)
       IN IF r.err # ""
          THEN /\ Crash(r.err)
               /\ UNCHANGED <<env, log>>
          ELSE /\ pc' = "submit"
               /\ env' = [env EXCEPT !.templated = r.templated,
                                     !.sbatch_path = SbatchPath]
               /\ log' = [log EXCEPT !.sbatch = Append(@, SbatchPath)]
               /\ UNCHANGED err
    /\ UNCHANGED <<input, heap, job_i, fx, otherVars>>

\* lines 917-921: the sbatch file renamed with the job id
Renamed(sbatch_path, job_id) ==
    <<sbatch_path[1], "_", job_id, "_", "now">>
    \o SubSeq(sbatch_path, 4, Len(sbatch_path) - 1)

\* a response without a job id taken for a submission with an empty id
SubmitJobMutant(response) ==
    /\ pc = "submit"
    /\ ~DryRun
    /\ LET job_id == IF response = "malformed" THEN "" ELSE "id" \o ToString(job_i)
       IN /\ fx' = [fx EXCEPT !.dirs = @ + 1,
                              !.written = Append(@, Renamed(env.sbatch_path, job_id)),
                              !.submitted = Append(@, job_i)]
          /\ env' = [env EXCEPT
                       !.job_ids = Append(@, job_id),
                       !.job_out_files = Append(@, <<"out", "/", "job", "-", job_id, ".out">>)]
    /\ job_i' = job_i + 1
    /\ pc' = "loop"
    /\ UNCHANGED <<input, heap, err, log, otherVars>>

\* lines 904-934: the sbatch file written and submitted
SubmitJob(response) ==
    /\ pc = "submit"
    /\ ~DryRun
    /\ IF response = "malformed"
       THEN /\ Crash("IndexError")
            /\ fx' = [fx EXCEPT !.dirs = @ + 1,
                                !.written = Append(@, env.sbatch_path),
                                !.submitted = Append(@, job_i)]
            /\ UNCHANGED <<env, job_i>>
       ELSE LET job_id == "id" \o ToString(job_i)
            IN /\ fx' = [fx EXCEPT !.dirs = @ + 1,
                                   !.written = Append(@, Renamed(env.sbatch_path, job_id)),
                                   !.submitted = Append(@, job_i)]
               /\ env' = [env EXCEPT
                            !.job_ids = Append(@, job_id),
                            !.job_out_files = Append(@, <<"out", "/", "job", "-", job_id, ".out">>)]
               /\ job_i' = job_i + 1
               /\ pc' = "loop"
               /\ UNCHANGED err
    /\ UNCHANGED <<input, heap, log, otherVars>>

\* line 904: nothing is written or submitted in dry-run mode
DryRunJob ==
    /\ pc = "submit"
    /\ DryRun
    /\ job_i' = job_i + 1
    /\ pc' = "loop"
    /\ UNCHANGED <<input, heap, env, err, log, fx, otherVars>>

\* lines 945-968: the recap and the summary YAML
Summary ==
    /\ pc = "loop"
    /\ job_i = Len(env.job_dicts)
    /\ fx' = [fx EXCEPT !.dirs = IF HasJobsFile THEN @ + 1 ELSE @,
                        !.summary = HasJobsFile /\ ~DryRun]
    /\ pc' = "done"
    /\ UNCHANGED <<input, heap, env, job_i, err, log, otherVars>>

Next ==
    \/ Configure
    \/ LoadJobs
    \/ \E answer \in Answers : AnswerPrompt(answer)
    \/ SkipPrompt
    \/ LayerJob
    \/ PrepareJob
    \/ RenderJob
    \/ \E response \in {"ok", "malformed"} : SubmitJob(response)
    \/ DryRunJob
    \/ Summary

Spec == Init /\ [][Next]_vars

(***************************************************************************)
(* Claims about deep_update                                                *)
(***************************************************************************)
IsMap(x) == x.t = "m"

RECURSIVE AsMap(_)
\* a value with its dicts as functions from keys to values: two dicts are
\* equal in Python exactly when they are equal so
AsMap(value) ==
    IF ~IsDict(value) THEN value
    ELSE [t |-> "m",
          v |-> [k \in KeysOf(value.v) |-> AsMap(GetItem(value.v, k))]]

RECURSIVE RefMerge(_, _)
\* the reference merge of two maps
RefMerge(x, y) ==
    [t |-> "m",
     v |-> [k \in (DOMAIN x.v) \cup (DOMAIN y.v) |->
              IF k \notin DOMAIN y.v THEN x.v[k]
              ELSE IF k \notin DOMAIN x.v THEN y.v[k]
              ELSE IF IsMap(x.v[k]) /\ IsMap(y.v[k]) THEN RefMerge(x.v[k], y.v[k])
              ELSE y.v[k]]]

\* C1: deep_update(A, B) equals the reference merge: a key only in A keeps A's
\* value, a key only in B gets B's value, a key in both whose values are maps
\* gets the recursive merge, and a key in both with any other pairing of values
\* gets B's value.
C1_ReferenceMerge ==
    pc = "done" =>
        /\ mOut.err = ""
        /\ AsMap(Deref(heap, mOut.r)) = RefMerge(AsMap(mIn[1]), AsMap(mIn[2]))

\* a merge with a recursion, a map replaced by a scalar and a key only in B
C1_Witness ==
    /\ pc = "done"
    /\ mIn[1] = D(<< <<<<"k1">>, D(<< <<<<"k1">>, S(<<"x">>)>> >>)>>,
                     <<<<"k2">>, D(<<>>)>> >>)
    /\ mIn[2] = D(<< <<<<"k1">>, D(<< <<<<"k2">>, S(<<"y">>)>> >>)>>,
                     <<<<"k2">>, S(<<"y">>)>> >>)
    /\ Deref(heap, mOut.r) =
          D(<< <<<<"k1">>, D(<< <<<<"k1">>, S(<<"x">>)>>, <<<<"k2">>, S(<<"y">>)>> >>)>>,
               <<<<"k2">>, S(<<"y">>)>> >>)

\* C2: a top-level call never mutates base: after the call base has, at every
\* depth, the value it had before the call.
C2_BaseNotMutated ==
    pc = "done" => Deref(heap, mA) = mIn[1]

\* the override has extended a nested map of base and replaced a leaf of it
C2_Witness ==
    /\ pc = "done"
    /\ mIn[1] = D(<< <<<<"k1">>, D(<< <<<<"k1">>, S(<<"x">>)>> >>)>> >>)
    /\ \E v \in MergeVals :
          mIn[2] = D(<< <<<<"k1">>, D(<< <<<<"k1">>, S(<<"y">>)>>, <<<<"k2">>, v>> >>)>> >>)
    /\ Deref(heap, mOut.r) = mIn[2]
    /\ Deref(heap, mA) = mIn[1]

RECURSIVE RefReplaced(_, _, _)
\* the dotted paths of the keys whose base value is replaced by a different
\* override value, at every depth
RefReplaced(x, y, path) ==
    UNION { IF IsMap(x.v[k]) /\ IsMap(y.v[k])
            THEN RefReplaced(x.v[k], y.v[k], Append(path, k))
            ELSE IF x.v[k] # y.v[k] THEN {Dotted(Append(path, k))} ELSE {}
            : k \in (DOMAIN x.v) \cap (DOMAIN y.v) }

\* C3: with verbose set, every key whose base value is replaced by a different
\* override value, at any depth, produces a warning naming its dotted path;
\* equal values and keys only in override produce none.
C3_WarnEveryReplaced ==
    (pc = "done" /\ mVerbose) =>
        SeqRange(mOut.out) = RefReplaced(AsMap(mIn[1]), AsMap(mIn[2]), <<>>)

(***************************************************************************)
(* Claims about load_jobs and the layering of __main__                     *)
(***************************************************************************)
HasKey(value, name) == IsDict(value) /\ K(name) \in KeysOf(value.v)

\* d[name] of a dict given by value, Absent when it has no such key
Field(value, name) == IF HasKey(value, name) THEN GetItem(value.v, K(name)) ELSE Absent

\* an absent or null map counts as the empty map
OrEmpty(value) == IF IsDict(value) THEN value ELSE D(<<>>)

\* the descriptor of an entry: slurm and script merged onto the shared maps,
\* every other field as in the entry
RefDescriptor(shared, entry) ==
    LET sh == OrEmpty(shared)
    IN [t |-> "m",
        v |-> [k \in KeysOf(entry.v) \cup {K("slurm"), K("script")} |->
                 IF k \in {K("slurm"), K("script")}
                 THEN RefMerge(AsMap(OrEmpty(Field(sh, k[1]))),
                               AsMap(OrEmpty(Field(entry, k[1]))))
                 ELSE AsMap(GetItem(entry.v, k))]]

Loaded == pc \notin {"main", "load"} /\ HasJobsFile

\* C5: for every entry of the jobs list load_jobs returns a descriptor whose
\* slurm is merge(shared.slurm, entry.slurm or {}) and whose script is
\* merge(shared.script, entry.script or {}), an absent or null section, sub-map
\* or field counting as the empty map; every other field is returned unchanged.
C5_LoadJobsMerges ==
    Loaded =>
        /\ err.at # "load"
        /\ Len(log.loaded) = Len(input.yaml.jobs)
        /\ \A k \in 1..Len(log.loaded) :
              AsMap(log.loaded[k]) = RefDescriptor(input.yaml.shared, input.yaml.jobs[k])

\* the same, for jobs files without a null section, sub-map or field
NoNull(file) ==
    /\ file.shared.t # "n"
    /\ Field(file.shared, "slurm").t # "n"
    /\ \A k \in 1..Len(file.jobs) : Field(file.jobs[k], "slurm").t # "n"

C5_WithoutNull ==
    (Loaded /\ NoNull(input.yaml)) =>
        /\ err.at # "load"
        /\ Len(log.loaded) = Len(input.yaml.jobs)
        /\ \A k \in 1..Len(log.loaded) :
              AsMap(log.loaded[k]) = RefDescriptor(input.yaml.shared, input.yaml.jobs[k])

\* C4: for every job and every key given as a known command-line flag, the
\* layered configuration of the job (before path resolution) holds the
\* command-line value.
C4_CliWins ==
    \A n \in 1..Len(log.layered) :
        \A a \in 1..Len(input.args.v) :
            Field(log.layered[n], input.args.v[a][1][1]) = input.args.v[a][2]

\* defaults, the shared block, the slurm map of the job and the job entry all
\* set mem, and the command line does too
C4_Witness ==
    /\ pc = "prepare"
    /\ job_i < Len(input.yaml.jobs)
    /\ Field(input.args, "mem") = S(<<"64G">>)
    /\ Field(Field(input.yaml.shared, "slurm"), "mem") = S(<<"16G">>)
    /\ Field(Field(input.yaml.jobs[job_i + 1], "slurm"), "mem") = S(<<"32G">>)
    /\ Field(input.yaml.jobs[job_i + 1], "mem") = S(<<"8G">>)
    /\ Field(log.layered[job_i + 1], "mem") = S(<<"64G">>)

\* a run of the same command line on the same jobs file cut down to its k-th
\* entry, up to the end of load_jobs
AloneLoad(k) ==
    LET ld == Load(<<>>, LaunchDefaults)
        la == Load(ld.h, input.args)
        d == deep_update(la.h, ld.c, la.c, PathNone, FALSE)
        r == load_jobs(d.h, TRUE, [shared |-> input.yaml.shared,
                                   jobs |-> <<input.yaml.jobs[k]>>])
    IN [err |-> r.err, h |-> r.h, jobs |-> r.jobs, conf |-> d.r, args |-> la.c]

\* the descriptor load_jobs returns for the k-th entry alone
AloneLoaded(k) ==
    LET r == AloneLoad(k)
    IN IF r.err # "" THEN S(<<r.err>>) ELSE Deref(r.h, r.jobs[1])

\* ... and on to the layering of its job
AloneLayer(k) ==
    LET r == AloneLoad(k)
    IN IF r.err # "" THEN DuRaise(r.err, r.h) ELSE Layer(r.h, r.conf, r.jobs[1], r.args)

\* the layered configuration of the k-th entry alone
AloneLayered(k) ==
    LET ly == AloneLayer(k)
    IN IF ly.err # "" THEN S(<<ly.err>>) ELSE Deref(ly.h, ly.r)

\* the script arguments of the k-th entry alone
AloneScriptArgs(k) ==
    LET ly == AloneLayer(k)
    IN IF ly.err # "" THEN Raise(ly.err)
       ELSE ScriptArgs(ResolvePaths(ly.h, ly.r), ly.r, input.cli_script_args)

\* C6: load_jobs returns one descriptor per entry of the jobs list, in the
\* order of the list, and the driver processes them in that order: the job
\* whose sbatch file is numbered i is the one of the i-th entry.
C6_ListOrder ==
    /\ (pc = "confirm" /\ input.hasFile) =>
          /\ Len(log.loaded) = Len(input.yaml.jobs)
          /\ Len(env.job_dicts) = IF input.yaml.jobs = <<>> THEN 1 ELSE Len(input.yaml.jobs)
          /\ \A k \in 1..Len(log.loaded) : log.loaded[k] = AloneLoaded(k)
    /\ (pc = "submit" /\ input.hasFile) =>
          LET n == Len(log.sbatch)
          IN /\ n = job_i + 1
             /\ log.sbatch[n] = <<"exp", "_", "now", "_", ToString(n - 1), ".sbatch">>
             /\ Len(log.layered) = n
             /\ input.yaml.jobs # <<>> => log.layered[n] = AloneLayered(n)

\* the second of two different entries is about to be submitted as job 1
C6_Witness ==
    /\ pc = "submit"
    /\ job_i = 1
    /\ Len(input.yaml.jobs) = 2
    /\ input.yaml.jobs[1] # input.yaml.jobs[2]
    /\ AloneLayered(1) # AloneLayered(2)
    /\ log.layered[2] = AloneLayered(2)
    /\ log.sbatch[2] = <<"exp", "_", "now", "_", "1", ".sbatch">>

\* the value a shared sub-map has in the jobs file
SharedValue(name) ==
    IF input.yaml.shared.t = "absent" \/ ~HasKey(input.yaml.shared, name) THEN D(<<>>)
    ELSE Field(input.yaml.shared, name)

\* C7: the jobs of a job-set are isolated from each other: the merged slurm and
\* script of job k and its script-argument string are those obtained by loading
\* entry k alone with the same shared block, and no entry changes the shared
\* maps.
C7_JobsIsolated ==
    /\ (pc = "confirm" /\ input.hasFile) =>
          \A k \in 1..Len(log.loaded) :
              /\ Field(log.loaded[k], "slurm") = Field(AloneLoaded(k), "slurm")
              /\ Field(log.loaded[k], "script") = Field(AloneLoaded(k), "script")
    /\ (input.hasFile /\ pc \notin {"main", "load"} /\ err.at # "load") =>
          /\ Deref(heap, env.shared_slurm) = SharedValue("slurm")
          /\ Deref(heap, env.shared_script) = SharedValue("script")
    /\ (pc = "render" /\ input.hasFile /\ input.yaml.jobs # <<>>) =>
          log.script_args[job_i + 1] = AloneScriptArgs(job_i + 1).s

\* shared script.user=alice, the first job overrides it with bob, the second
\* does not
C7_Witness ==
    /\ pc = "render"
    /\ job_i = 1
    /\ Field(Field(input.yaml.shared, "script"), "user") = S(<<"alice">>)
    /\ Len(input.yaml.jobs) = 2
    /\ Field(input.yaml.jobs[1], "script") = D(<< Item("user", S(<<"bob">>)) >>)
    /\ ~HasKey(input.yaml.jobs[2], "script")
    /\ log.script_args = << <<"user", "=", "bob">>, <<"user", "=", "alice">> >>

(***************************************************************************)
(* Claims about quote                                                      *)
(***************************************************************************)
RECURSIVE RefEscape(_)
RefEscape(str) ==
    IF str = <<>> THEN <<>>
    ELSE (IF Head(str) \in {"(", ")"} THEN <<"\\", Head(str)>> ELSE <<Head(str)>>)
         \o RefEscape(Tail(str))

\* C10: quote(value) is str(value) with every parenthesis preceded by a
\* backslash, and in addition: left as is when it has neither a space nor '=';
\* wrapped in double quotes when it has a space or '=' and no double quote;
\* wrapped in single quotes when it has a space or '=', a double quote and no
\* single quote.
C10_QuoteRule ==
    pc = "done" =>
        LET v == Str(qin)
            e == RefEscape(v)
            sp == Contains(v, " ") \/ Contains(v, "=")
        IN /\ ~sp => qout = Ok(e)
           /\ (sp /\ ~Contains(v, "\"")) => qout = Ok(<<"\"">> \o e \o <<"\"">>)
           /\ (sp /\ Contains(v, "\"") /\ ~Contains(v, "'"))
                 => qout = Ok(<<"'">> \o e \o <<"'">>)

C10_Witness ==
    /\ pc = "done"
    /\ qin = S(<<"(", "=", "\"">>)
    /\ qout = Ok(<<"'", "\\", "(", "=", "\"", "'">>)

BothQuotes(str) == Contains(str, "'") /\ Contains(str, "\"")

\* C11 (as stated): quote raises an error identifying the offending value for
\* every value that contains both a single-quote and a double-quote character,
\* and returns no partial result in that case.
C11_RaisesForBothQuotes ==
    (pc = "done" /\ BothQuotes(Str(qin))) =>
        /\ qout.err = "ValueError"
        /\ qout.msg = <<"Cannot quote ">> \o Str(qin)
        /\ qout.s = <<>>

\* C11 (amended): quote raises exactly for the values that contain both quote
\* characters and a space or an '='; the error is a ValueError whose message
\* holds the value as given, and no partial result is returned.  A value with
\* both quote characters and neither a space nor an '=' is returned, its
\* parentheses escaped, without an error.
C11_RaisesWhenQuotingBoth ==
    pc = "done" =>
        LET v == Str(qin)
            must == BothQuotes(v) /\ (Contains(v, " ") \/ Contains(v, "="))
        IN /\ must => /\ qout.err = "ValueError"
                      /\ qout.msg = <<"Cannot quote ">> \o v
                      /\ qout.s = <<>>
           /\ ~must => qout.err = ""
           /\ (BothQuotes(v) /\ ~must) => qout = Ok(RefEscape(v))

\* a value with both quote characters and a space has been refused
C11_Witness ==
    /\ pc = "done"
    /\ qin = S(<<"'", " ", "\"">>)
    /\ qout.err = "ValueError"
    /\ qout.msg = <<"Cannot quote ", "'", " ", "\"">>

(***************************************************************************)
(* Claims about script_dict_to_script_args_str                             *)
(***************************************************************************)
\* the token of a leaf at a dotted path: path=quote(value), wrapped as a whole
\* in single quotes when it holds more than one '='
RefTok(path, value) ==
    LET c == path \o <<"=">> \o quote(value).s
    IN IF Count(c, "=") > 1 THEN <<"'">> \o c \o <<"'">> ELSE c

RECURSIVE RefTokens(_, _)
RECURSIVE RefItemTokens(_, _, _)
RefItemTokens(items, i, path) ==
    IF i > Len(items) THEN <<>>
    ELSE (IF items[i][1] = <<"__value__">>
          THEN <<RefTok(path, items[i][2])>>
          ELSE RefTokens(items[i][2], NewKey(path, items[i][1])))
         \o RefItemTokens(items, i + 1, path)

\* the tokens of the leaves (scalars and sentinel values) of a script map, in
\* the order of the map
RefTokens(value, path) ==
    IF IsDict(value) THEN RefItemTokens(value.v, 1, path) ELSE <<RefTok(path, value)>>

RECURSIVE JoinSp(_)
\* " ".join(tokens)
JoinSp(tokens) ==
    IF tokens = <<>> THEN <<>>
    ELSE IF Len(tokens) = 1 THEN tokens[1]
    ELSE tokens[1] \o <<" ">> \o JoinSp(Tail(tokens))

RECURSIVE HasSentinelWithSiblings(_)
\* some map of the script holds __value__ together with other keys
HasSentinelWithSiblings(value) ==
    /\ IsDict(value)
    /\ \/ /\ Len(value.v) > 1
          /\ \E i \in 1..Len(value.v) : value.v[i][1] = <<"__value__">>
       \/ \E i \in 1..Len(value.v) : HasSentinelWithSiblings(value.v[i][2])

\* C8: a map holding __value__ together with sibling keys emits the token of
\* the sentinel (path=quote(v)) and the tokens of every sibling under path.k,
\* and no emitted token has __value__ in its key: the result is made of exactly
\* the tokens of the leaves, e.g. {a: {__value__: x, b: y}} gives a=x a.b=y.
C8_SentinelAndSiblings ==
    (pc = "done" /\ fout.err = "" /\ HasSentinelWithSiblings(fin)) =>
        /\ fout.s = JoinSp(RefTokens(fin, <<>>))
        /\ ~Contains(fout.s, "__value__")

\* C9: the result is the tokens of the n leaves, each followed by exactly one
\* space separating it from the next, with no trailing space.
C9_SpaceSeparated ==
    (pc = "done" /\ fout.err = "") => fout.s = JoinSp(RefTokens(fin, <<>>))

RECURSIVE RefLeaves(_, _)
RECURSIVE RefItemLeaves(_, _, _)
RefItemLeaves(items, i, path) ==
    IF i > Len(items) THEN <<>>
    ELSE (IF items[i][1] = <<"__value__">>
          THEN << [path |-> path, value |-> items[i][2], sentinel |-> TRUE] >>
          ELSE RefLeaves(items[i][2], NewKey(path, items[i][1])))
         \o RefItemLeaves(items, i + 1, path)

\* the leaves of a script map in the order of the map: the dotted path, the
\* value, and whether the leaf is a __value__ entry
RefLeaves(value, path) ==
    IF IsDict(value) THEN RefItemLeaves(value.v, 1, path)
    ELSE << [path |-> path, value |-> value, sentinel |-> FALSE] >>

\* key=quotedValue
RefCandidate(leaf) == leaf.path \o <<"=">> \o quote(leaf.value).s

Quotable(leaf) == quote(leaf.value).err = ""

\* a token with several '=' and a single quote
Unwrappable(leaf) ==
    /\ Quotable(leaf)
    /\ Count(RefCandidate(leaf), "=") > 1
    /\ Contains(RefCandidate(leaf), "'")

RECURSIVE RefEmitted(_)
\* the texts the tokens of the leaves may make, each token followed by its
\* separating space: a token with several '=' is wrapped as a whole in single
\* quotes, a token with one '=' is not; the space of a wrapped __value__ token
\* may stand on either side of the closing quote
RefEmitted(leaves) ==
    IF leaves = <<>> THEN {<<>>}
    ELSE LET c == RefCandidate(Head(leaves))
             first == IF Count(c, "=") > 1
                      THEN {<<"'">> \o c \o <<"'", " ">>}
                           \cup (IF Head(leaves).sentinel
                                 THEN {<<"'">> \o c \o <<" ", "'">>} ELSE {})
                      ELSE {c \o <<" ">>}
         IN {f \o rest : f \in first, rest \in RefEmitted(Tail(leaves))}

IsPlaceholderAt(text, i, j) ==
    /\ i + 1 < j
    /\ text[i] = "{"
    /\ text[j] = "}"
    /\ \A k \in (i + 1)..(j - 1) : IsWord(text[k])

\* the placeholder identifiers of a template
RefPlaceholders(text) ==
    {SubSeq(text, ij[1] + 1, ij[2] - 1) :
        ij \in {p \in (1..Len(text)) \X (1..Len(text)) : IsPlaceholderAt(text, p[1], p[2])}}

RECURSIVE RefSubstitute(_, _)
\* the text with every {identifier} replaced by the string form of the value
\* of identifier
RefSubstitute(text, job_conf) ==
    IF text = <<>> THEN <<>>
    ELSE IF \E j \in 1..Len(text) : IsPlaceholderAt(text, 1, j)
    THEN LET j == CHOOSE k \in 1..Len(text) : IsPlaceholderAt(text, 1, k)
         IN Str(GetItem(job_conf.v, SubSeq(text, 2, j - 1)))
            \o RefSubstitute(SubSeq(text, j + 1, Len(text)), job_conf)
    ELSE <<Head(text)>> \o RefSubstitute(Tail(text), job_conf)

\* every brace of the text is the brace of a placeholder
PlainTemplate(text) ==
    \A k \in 1..Len(text) :
        text[k] \in {"{", "}"} =>
            \E i \in 1..Len(text), j \in 1..Len(text) :
                IsPlaceholderAt(text, i, j) /\ k \in {i, j}

RenderedAsClaimed ==
    LET missing == RefPlaceholders(rin.template) \ KeysOf(rin.job_conf.v)
    IN /\ (rout.err # "") <=> (missing # {})
       /\ (rout.err # "") => (rout.formatted = <<>> /\ rout.templated = <<>>)
       /\ (rout.err = "") => rout.formatted = RefSubstitute(rin.template, rin.job_conf)

\* C13: rendering fails, with no rendered text, exactly when some placeholder
\* identifier of the template is not a key of the job configuration (keys
\* that are not placeholders never matter); when it succeeds, every
\* placeholder is replaced by the string form of its value.
C13_RenderChecksPlaceholders ==
    pc = "done" => RenderedAsClaimed

\* the same for the templates whose braces all belong to placeholders
C13_PlainTemplates ==
    (pc = "done" /\ PlainTemplate(rin.template)) => RenderedAsClaimed

(***************************************************************************)
(* Claims about clean_sbatch_params                                        *)
(***************************************************************************)
\* the lines of a text: what stands between two newlines, before the first
\* and after the last, a last line that is empty not counted
RefLines(text) ==
    LET nl == {k \in 1..Len(text) : text[k] = "\n"}
        stops == nl \cup {Len(text) + 1}
        \* the k-th stop, in increasing order
        Stop(k) == CHOOSE s \in stops : Cardinality({u \in stops : u < s}) = k - 1
        all == [k \in 1..Cardinality(stops) |->
                   SubSeq(text, (IF k = 1 THEN 1 ELSE Stop(k - 1) + 1), Stop(k) - 1)]
    IN IF all[Len(all)] = <<>> THEN SubSeq(all, 1, Len(all) - 1) ELSE all

Blank(str) == \A k \in 1..Len(str) : str[k] = " "

FirstEquals(line) == CHOOSE k \in 1..Len(line) : line[k] = "=" /\ ~Contains(SubSeq(line, 1, k - 1), "=")

\* a scheduler directive with an empty value: the line begins with #SBATCH,
\* holds an '=' and has nothing but whitespace after it
RefEmptyDirective(line) ==
    /\ line # <<>>
    /\ line[1] = "#SBATCH"
    /\ Contains(line, "=")
    /\ Blank(SubSeq(line, FirstEquals(line) + 1, Len(line)))

\* the same with the value ending at the second '=' of the line, if any
RefEmptyUpToSecondEquals(line) ==
    /\ line # <<>>
    /\ line[1] = "#SBATCH"
    /\ Contains(line, "=")
    /\ LET rest == SubSeq(line, FirstEquals(line) + 1, Len(line))
       IN Blank(IF Contains(rest, "=") THEN SubSeq(rest, 1, FirstEquals(rest) - 1) ELSE rest)

RECURSIVE RefJoinLines(_, _)
\* the lines from the k-th on joined by newlines
RefJoinLines(lines, k) ==
    IF k > Len(lines) THEN <<>>
    ELSE lines[k] \o (IF k < Len(lines) THEN <<"\n">> ELSE <<>>) \o RefJoinLines(lines, k + 1)

\* C14: clean_sbatch_params returns the lines of its input in their order
\* minus exactly the scheduler directives with an empty value: the lines that
\* begin with #SBATCH, hold an '=' and have nothing but whitespace after the
\* '='; every other line is kept unchanged.
C14_DropsEmptyDirectives ==
    pc = "done" =>
        cout = RefJoinLines(SelectSeq(RefLines(cin), LAMBDA l : ~RefEmptyDirective(l)), 1)

\* what the code does: the value of a directive ends at the second '='
C14_UpToSecondEquals ==
    pc = "done" =>
        cout = RefJoinLines(SelectSeq(RefLines(cin), LAMBDA l : ~RefEmptyUpToSecondEquals(l)), 1)

(***************************************************************************)
(* Claims about the side effects of a run                                  *)
(***************************************************************************)
\* the launch configuration is known and says dry_run
InDryRun == env.conf # None /\ DryRun

\* C15: in dry-run mode a run has no side effect, with or without a jobs file
\* and for any number of jobs: no directory is created, no sbatch file and no
\* summary YAML is written, nothing is submitted and job_ids stays empty.
C15_DryRunNoSideEffect ==
    InDryRun =>
        /\ fx.dirs = 0
        /\ fx.written = <<>>
        /\ fx.summary = FALSE
        /\ fx.submitted = <<>>
        /\ env.job_ids = <<>>

\* the same but for the directories
C15_DryRunWritesNothing ==
    InDryRun =>
        /\ fx.written = <<>>
        /\ fx.summary = FALSE
        /\ fx.submitted = <<>>
        /\ env.job_ids = <<>>

\* the submission of job job_i got a response without a job id
MalformedResponse == err = [at |-> "submit", e |-> "IndexError"]

\* C16: a response of the submission command without a job id, for job i, is
\* fatal and the loop does not go on: job i adds nothing to job_ids and
\* job_out_files (the two lists have equal lengths at all times, one entry per
\* job submitted with success), no later job is rendered or submitted, no
\* summary is written, and the jobs before i stay submitted.
C16_MalformedResponseIsFatal ==
    /\ Len(env.job_ids) = Len(env.job_out_files)
    /\ Len(env.job_ids) <= job_i
    /\ \A k \in 1..Len(env.job_ids) :
          /\ env.job_ids[k] = "id" \o ToString(k - 1)
          /\ fx.submitted[k] = k - 1
    /\ MalformedResponse =>
          /\ pc = "crashed"
          /\ Len(env.job_ids) = job_i
          /\ Len(log.sbatch) = job_i + 1
          /\ fx.submitted = [k \in 1..(job_i + 1) |-> k - 1]
          /\ fx.summary = FALSE

\* the second job of two got a malformed response after the first was submitted
C16_Witness ==
    /\ MalformedResponse
    /\ job_i = 1
    /\ Len(env.job_dicts) = 2
    /\ env.job_ids = <<"id0">>
    /\ Len(env.job_out_files) = 1

(***************************************************************************)
(* Claims about the confirmation                                           *)
(***************************************************************************)
\* yes, in either case
RefAffirmative(answer) == Lower(answer) \in {<<"y">>, <<"y", "e", "s">>}

\* the answer holds the letter y, in either case
HoldsLetterY(answer) == \E k \in 1..Len(answer) : answer[k] \in {"y", "Y"}

\* the run is at a job of the loop or past the loop
InOrPastLoop == pc \in {"loop", "prepare", "render", "submit", "done"}

NothingSubmitted == fx.written = <<>> /\ fx.submitted = <<>>

\* the confirmation comes once, before the first job, and decides: Yes(answer)
\* says which answers let the run go on
ConfirmationDecides(Yes(_)) ==
    /\ Len(fx.prompts) <= 1
    /\ (env.conf # None /\ (Force \/ DryRun)) => fx.prompts = <<>>
    /\ (env.conf # None /\ ~Force /\ ~DryRun) =>
          /\ (fx.prompts = <<>>) =>
                (NothingSubmitted /\ log.layered = <<>> /\ ~InOrPastLoop)
          /\ (fx.prompts # <<>> /\ ~Yes(fx.prompts[1])) =>
                (pc = "aborted" /\ NothingSubmitted /\ log.layered = <<>>)
          /\ (fx.prompts # <<>> /\ Yes(fx.prompts[1])) => pc # "aborted"

====
